---- MODULE Spec2Model ----
(***************************************************************************)
(* Model of the two GA4 report scripts:                                    *)
(*   app_monthly_v6.py  - monthly Organic Search report with insights      *)
(*   app_weekly_v1.py   - weekly per-channel comparison                    *)
(* A run of a script is a sequence of steps: input gate, credential/client *)
(* initialisation, one step per analytics query, and the rendering of the  *)
(* workbook.  The analytics service and the credential loader are the      *)
(* environment: their answers are chosen nondeterministically.             *)
(*                                                                         *)
(* Numbers.  Metric values are modelled as integers.  A percentage that    *)
(* Python rounds to two decimals is carried as an integer number of        *)
(* hundredths of a percent (50.0 % = 5000), rounded half-to-even on the    *)
(* exact quotient.                                                         *)
(***************************************************************************)
EXTENDS Integers, Sequences, FiniteSets, TLC

VARIABLES
    flow,             \* which script runs: "monthly", "weekly", or "generator"
    pc,               \* position of the run in the script
    start_date,       \* monthly: st.sidebar.date_input("Start Date")
    end_date,         \* monthly: st.sidebar.date_input("End Date")
    property_id,      \* both: text input, "" when not entered
    uploaded_file,    \* both: TRUE when a key file was uploaded (key_file in weekly)
    selected_metrics, \* monthly: multiselect result
    run_report,       \* both: the sidebar button
    months,           \* monthly: result of generate_months
    request,          \* monthly: the request dict mutated per iteration
    all_data,         \* monthly: rows [month label, metric sums...]
    fetch_index,      \* both: number of loop iterations already executed
    this_week_start,  \* weekly: date inputs
    this_week_end,
    prev_week_start,
    prev_week_end,
    weeks,            \* weekly: the two windows
    selected_channels,\* weekly: multiselect result
    weekly_data,      \* weekly: week name -> channel -> metrics
    worksheet,        \* both: cells written, <<row, col>> -> cell
    cond_formats,     \* monthly: ranges given to conditional_format, in order
    charts,           \* monthly: chart series of the Graphs sheet
    messages,         \* both: st.error / st.warning / st.success, in order
    queries,          \* both: requests handed to client.run_report, in order
    outcomes,         \* both: per query, TRUE when it returned and was parsed
    download,         \* both: TRUE once st.download_button was offered
    client            \* both: "none", "ready" once built, "failed" when building raised

vars == <<flow, pc, start_date, end_date, property_id, uploaded_file,
          selected_metrics, run_report, months, request, all_data,
          fetch_index, this_week_start, this_week_end, prev_week_start,
          prev_week_end, weeks, selected_channels, weekly_data, worksheet,
          cond_formats, charts, messages, queries, outcomes, download, client>>

weekInputs == <<this_week_start, this_week_end, prev_week_start, prev_week_end>>

-----------------------------------------------------------------------------
(* Bounds *)

\* The monthly flow's two date inputs are drawn from the days FlowBase ..
\* FlowBase + MaxDay and FlowLate .. FlowLate + MaxDay.
MaxDay == 2

\* Days after GenBase from which generate_months' inputs are drawn.
GenMaxDay == 125

\* Days after WeekBase from which the four weekly date inputs are drawn.
WeekMaxDay == 1

\* Largest number of rows in one analytics response.
MaxRows == 2

-----------------------------------------------------------------------------
(* datetime.date *)

Date(y, m, d) == [year |-> y, month |-> m, day |-> d]

IsLeap(y) == (y % 4 = 0 /\ y % 100 # 0) \/ y % 400 = 0

DaysInMonth(y, m) ==
    IF m = 2 THEN (IF IsLeap(y) THEN 29 ELSE 28)
    ELSE IF m \in {4, 6, 9, 11} THEN 30 ELSE 31

\* date.__le__ / __lt__
DateLT(a, b) ==
    \/ a.year < b.year
    \/ a.year = b.year /\ a.month < b.month
    \/ a.year = b.year /\ a.month = b.month /\ a.day < b.day

DateLE(a, b) == a = b \/ DateLT(a, b)

\* min() on two dates
DateMin(a, b) == IF DateLE(a, b) THEN a ELSE b

\* date.replace(day=n)
ReplaceDay(d, n) == [d EXCEPT !.day = n]

\* First day of the month after d's.
FirstOfNextMonth(d) ==
    IF d.month < 12 THEN Date(d.year, d.month + 1, 1) ELSE Date(d.year + 1, 1, 1)

\* Last day of the month before d's.
LastOfPrevMonth(d) ==
    IF d.month > 1 THEN Date(d.year, d.month - 1, DaysInMonth(d.year, d.month - 1))
    ELSE Date(d.year - 1, 12, 31)

\* date + timedelta(days=n), a month at a time
RECURSIVE AddDays(_, _)
AddDays(d, n) ==
    IF n >= 0
    THEN IF d.day + n <= DaysInMonth(d.year, d.month)
         THEN Date(d.year, d.month, d.day + n)
         ELSE AddDays(FirstOfNextMonth(d), n - (DaysInMonth(d.year, d.month) - d.day + 1))
    ELSE IF d.day + n >= 1
         THEN Date(d.year, d.month, d.day + n)
         ELSE AddDays(LastOfPrevMonth(d), n + d.day)

Pad2(n) == IF n < 10 THEN "0" \o ToString(n) ELSE ToString(n)

\* strftime("%Y-%m-%d"), also str(date)
Iso(d) == ToString(d.year) \o "-" \o Pad2(d.month) \o "-" \o Pad2(d.day)

MonthNames ==
    <<"Jan", "Feb", "Mar", "Apr", "May", "Jun",
      "Jul", "Aug", "Sep", "Oct", "Nov", "Dec">>

\* strftime("%b")
MonthAbbr(d) == MonthNames[d.month]

-----------------------------------------------------------------------------
(* generate_months *)

\* A variant of the month record that forgets to clip the end to end_date.
MonthRecordUnclipped(month_start, month_end, end) ==
    [month      |-> MonthAbbr(month_start),
     start_date |-> Iso(month_start),
     end_date   |-> Iso(month_end)]

\* The dict appended per iteration.
MonthRecord(month_start, month_end, end) ==
    [month      |-> MonthAbbr(month_start),
     start_date |-> Iso(month_start),
     end_date   |-> Iso(DateMin(month_end, end))]

RECURSIVE GenerateLoop(_, _, _)
GenerateLoop(current, end, acc) ==
    IF DateLE(current, end)
    THEN LET month_start == ReplaceDay(current, 1)
             next_month  == ReplaceDay(AddDays(month_start, 31), 1)
             month_end   == AddDays(next_month, -1)
         IN  GenerateLoop(next_month, end,
                          Append(acc, MonthRecord(month_start, month_end, end)))
    ELSE acc

generate_months(start, end) == GenerateLoop(start, end, <<>>)

-----------------------------------------------------------------------------
(* Numbers and their text *)

Abs(n) == IF n < 0 THEN -n ELSE n

\* Nearest integer to num/den (den > 0), ties to the even neighbour.
RoundHalfEven(num, den) ==
    LET q == num \div den
        r == num % den
    IN  IF 2 * r < den THEN q
        ELSE IF 2 * r > den THEN q + 1
        ELSE IF q % 2 = 0 THEN q ELSE q + 1

\* round(x * 100, 2) for x = num/den, in hundredths of a percent.
RoundPercent(num, den) == RoundHalfEven(num * 10000, den)

\* The values the analytics service returns, as it returns them: numeric strings.
MetricValues == {0, 32, 33, 90, 100, 120, 150, 200}

\* float(value) / int(value) of a numeric string.
ParseNumber(s) == CHOOSE n \in MetricValues : ToString(n) = s

\* repr of a non-negative float given in hundredths: 5000 -> "50.0", 625 -> "6.25".
FloatRepr(h) ==
    ToString(h \div 100) \o "." \o
        (IF h % 10 = 0 THEN ToString((h % 100) \div 10) ELSE Pad2(h % 100))

\* f"{x:.2f}" for the value x.num / x.den (x.den > 0).
Format2f(x) ==
    LET h == RoundHalfEven(Abs(x.num) * 100, x.den)
    IN  (IF x.num < 0 THEN "-" ELSE "") \o ToString(h \div 100) \o "." \o Pad2(h % 100)

RECURSIVE SumSeq(_)
SumSeq(s) == IF s = <<>> THEN 0 ELSE Head(s) + SumSeq(Tail(s))

\* chr(65 + n)
Letters == <<"A", "B", "C", "D", "E", "F", "G", "H", "I", "J", "K">>

Chr65(n) == Letters[n + 1]

-----------------------------------------------------------------------------
(* Worksheet cells *)

TextCell(s, fmt) == [kind |-> "text", text |-> s, num |-> 0, den |-> 1, format |-> fmt]

\* A number num/den.
NumCell(n, d, fmt) == [kind |-> "number", text |-> "", num |-> n, den |-> d, format |-> fmt]

NoCells == [p \in {} |-> TextCell("", "")]

Msg(level, text) == [level |-> level, text |-> text]

\* worksheet.write for each of the cells, later writes replacing earlier ones
WriteAll(ws, cells) ==
    [p \in (DOMAIN ws) \cup (DOMAIN cells) |->
        IF p \in DOMAIN cells THEN cells[p] ELSE ws[p]]

-----------------------------------------------------------------------------
(* Inputs and environment *)

FlowBase == Date(2024, 1, 30)

FlowLate == Date(2024, 2, 29)

FlowDates ==
    {AddDays(FlowBase, i) : i \in 0..MaxDay} \cup {AddDays(FlowLate, i) : i \in 0..MaxDay}

PropertyIds == {"", "123456"}

\* The multiselect: nothing selected, or its default.
MetricSelections == {<<>>, <<"Sessions", "Users">>}

all_available_metrics ==
    [m \in {"Sessions", "Users"} |->
        IF m = "Sessions" THEN "sessions" ELSE "totalUsers"]

\* Exceptions the service or the credential loader may raise.
Errors == {"503 unavailable"}

\* One response row of the monthly query: a numeric string per requested metric.
MonthlyRows == {<<"100", "0">>, <<"150", "33">>, <<"120", "32">>}

RECURSIVE SeqsUpTo(_, _)
SeqsUpTo(S, n) ==
    IF n = 0 THEN {<<>>}
    ELSE LET shorter == SeqsUpTo(S, n - 1)
         IN  shorter \cup {Append(q, x) : q \in {t \in shorter : Len(t) = n - 1}, x \in S}

MonthlyResponses == SeqsUpTo(MonthlyRows, MaxRows)

-----------------------------------------------------------------------------
(* app_monthly_v6.py *)

headers == <<"Month">> \o selected_metrics

Stop(level, text) ==
    /\ messages' = Append(messages, Msg(level, text))
    /\ pc' = "stopped"

\* Validate date range.
M_ValidateRange ==
    /\ flow = "monthly" /\ pc = "validate"
    /\ IF DateLT(end_date, start_date)
       THEN Stop("error", "Start Date must be before End Date.")
       ELSE pc' = "metrics" /\ UNCHANGED messages
    /\ UNCHANGED <<flow, client, start_date, end_date, property_id, uploaded_file,
                   selected_metrics, run_report, months, request, all_data,
                   fetch_index, weekInputs, weeks, selected_channels, weekly_data,
                   worksheet, cond_formats, charts, queries, outcomes, download>>

\* At least one metric must be selected.
M_CheckMetrics ==
    /\ flow = "monthly" /\ pc = "metrics"
    /\ IF selected_metrics = <<>>
       THEN Stop("error", "Please select at least one metric.")
       ELSE pc' = "button" /\ UNCHANGED messages
    /\ UNCHANGED <<flow, client, start_date, end_date, property_id, uploaded_file,
                   selected_metrics, run_report, months, request, all_data,
                   fetch_index, weekInputs, weeks, selected_channels, weekly_data,
                   worksheet, cond_formats, charts, queries, outcomes, download>>

\* A variant of the gate that warns about missing inputs and carries on.
M_RunGateWarnOnly ==
    /\ flow = "monthly" /\ pc = "button"
    /\ IF ~run_report
       THEN pc' = "idle" /\ UNCHANGED messages
       ELSE IF ~uploaded_file \/ property_id = ""
       THEN /\ messages' = Append(messages,
                              Msg("warning", "Please provide all required inputs."))
            /\ pc' = "client"
       ELSE pc' = "client" /\ UNCHANGED messages
    /\ UNCHANGED <<flow, client, start_date, end_date, property_id, uploaded_file,
                   selected_metrics, run_report, months, request, all_data,
                   fetch_index, weekInputs, weeks, selected_channels, weekly_data,
                   worksheet, cond_formats, charts, queries, outcomes, download>>

\* if run_report: required inputs present?
M_RunGate ==
    /\ flow = "monthly" /\ pc = "button"
    /\ IF ~run_report
       THEN pc' = "idle" /\ UNCHANGED messages
       ELSE IF ~uploaded_file \/ property_id = ""
       THEN Stop("warning", "Please provide all required inputs.")
       ELSE pc' = "client" /\ UNCHANGED messages
    /\ UNCHANGED <<flow, client, start_date, end_date, property_id, uploaded_file,
                   selected_metrics, run_report, months, request, all_data,
                   fetch_index, weekInputs, weeks, selected_channels, weekly_data,
                   worksheet, cond_formats, charts, queries, outcomes, download>>

\* Credentials.from_service_account_file / BetaAnalyticsDataClient
M_InitClient ==
    /\ flow = "monthly" /\ pc = "client"
    /\ \/ pc' = "generate" /\ client' = "ready" /\ UNCHANGED messages
       \/ /\ \E e \in Errors : Stop("error", "Error initializing GA4 client: " \o e)
          /\ client' = "failed"
    /\ UNCHANGED <<flow, start_date, end_date, property_id, uploaded_file,
                   selected_metrics, run_report, months, request, all_data,
                   fetch_index, weekInputs, weeks, selected_channels, weekly_data,
                   worksheet, cond_formats, charts, queries, outcomes, download>>

request_metrics == [i \in 1..Len(selected_metrics) |-> all_available_metrics[selected_metrics[i]]]

\* The request dict as first built: no date_ranges key yet.
RequestTemplate ==
    [property         |-> "properties/" \o property_id,
     metrics          |-> request_metrics,
     dimension_filter |-> "Organic Search",
     date_ranges      |-> <<>>]

\* months = generate_months(...); request = {...}; all_data = []
M_Prepare ==
    /\ flow = "monthly" /\ pc = "generate"
    /\ months' = generate_months(start_date, end_date)
    /\ request' = RequestTemplate
    /\ all_data' = <<>>
    /\ pc' = "fetch"
    /\ UNCHANGED <<flow, client, start_date, end_date, property_id, uploaded_file,
                   selected_metrics, run_report, fetch_index, weekInputs, weeks,
                   selected_channels, weekly_data, worksheet, cond_formats,
                   charts, messages, queries, outcomes, download>>

DateRange(s, e) == [start_date |-> s, end_date |-> e]

\* The request after a late write of date_ranges: the range is set only once
\* the previous call has gone out, so a call carries the range before it.
SetDateRangeStale(req, month) ==
    IF req.date_ranges = <<>>
    THEN [req EXCEPT !.date_ranges = <<DateRange(month.start_date, month.end_date)>>]
    ELSE req

\* request['date_ranges'] = [DateRange(...)]
SetDateRange(req, month) ==
    [req EXCEPT !.date_ranges = <<DateRange(month.start_date, month.end_date)>>]

\* monthly_data: the label followed by the per-metric sums over response.rows
MonthlyData(month, rows) ==
    <<month.month>> \o
        [i \in 1..Len(request_metrics) |->
            SumSeq([r \in 1..Len(rows) |-> ParseNumber(rows[r][i])])]

\* A variant of the loop body that records a zero row for a failed month.
AppendOnFailureZero(data, month) ==
    Append(data, <<month.month>> \o [i \in 1..Len(request_metrics) |-> 0])

\* except Exception: the month contributes no row.
AppendOnFailure(data, month) == data

\* One iteration of "for month in months".
M_Fetch ==
    /\ flow = "monthly" /\ pc = "fetch" /\ fetch_index < Len(months)
    /\ LET month == months[fetch_index + 1]
           sent  == SetDateRange(request, month)
       IN  /\ request' = sent
           /\ queries' = Append(queries, sent)
           /\ \/ \E rows \in MonthlyResponses :
                   /\ all_data' = Append(all_data, MonthlyData(month, rows))
                   /\ outcomes' = Append(outcomes, TRUE)
                   /\ messages' = Append(messages,
                         Msg("success", "Data for " \o month.month \o " successfully fetched."))
              \/ \E e \in Errors :
                   /\ all_data' = AppendOnFailure(all_data, month)
                   /\ outcomes' = Append(outcomes, FALSE)
                   /\ messages' = Append(messages,
                         Msg("error", "Error fetching data for " \o month.month \o ": " \o e))
    /\ fetch_index' = fetch_index + 1
    /\ UNCHANGED <<flow, client, pc, start_date, end_date, property_id, uploaded_file,
                   selected_metrics, run_report, months, weekInputs, weeks,
                   selected_channels, weekly_data, worksheet, cond_formats,
                   charts, download>>

\* worksheet.write(0, col_num, header, header_format)
HeaderCell(col_num) == TextCell(headers[col_num + 1], "header_format")

\* worksheet.write(row_num, col_num, cell_data, content_format), rows from 1
DataCell(data, row_num, col_num) ==
    IF col_num = 0
    THEN TextCell(data[row_num][1], "content_format")
    ELSE NumCell(data[row_num][col_num + 1], 1, "content_format")

\* all_data[-1]
CurrentRow(data) == data[Len(data)]

\* A variant that takes the first row of the table as the previous one.
PreviousRowFirst(data) == data[1]

\* all_data[-2]
PreviousRow(data) == data[Len(data) - 1]

\* round((last - second_last) / second_last * 100, 2) * 0.01 if second_last != 0 else 0
PercentageDifference(last, second_last) ==
    IF second_last # 0
    THEN NumCell(RoundPercent(last - second_last, second_last), 10000, "content_format")
    ELSE NumCell(0, 1, "content_format")

\* if len(all_data) >= 2
HasDelta(data) == Len(data) >= 2

\* Cell col_num of percent_diff_row, written at row len(all_data) + 1.
DiffCell(data, col_num) ==
    IF col_num = 0
    THEN TextCell("% Difference", "content_format")
    ELSE PercentageDifference(CurrentRow(data)[col_num + 1],
                              PreviousRow(data)[col_num + 1])

\* A variant that divides without looking at the previous value; a zero
\* previous value then surfaces as a change of 100 %.
percentage_change_unguarded(current_value, previous_value) ==
    IF previous_value # 0
    THEN [float |-> TRUE,
          hundredths |-> RoundPercent(current_value - previous_value, previous_value)]
    ELSE [float |-> TRUE, hundredths |-> 10000]

\* round((current - previous) / previous * 100, 2) if previous != 0 else 0
\* The result is a float in the first case and the int 0 in the second.
percentage_change(current_value, previous_value) ==
    IF previous_value # 0
    THEN [float |-> TRUE,
          hundredths |-> RoundPercent(current_value - previous_value, previous_value)]
    ELSE [float |-> FALSE, hundredths |-> 0]

\* "improvement" if percentage_change > 0 else "drop"
change_type(change) == IF change.hundredths > 0 THEN "improvement" ELSE "drop"

\* f"{change_type} of {abs(percentage_change)}%"
percentage_text(change) ==
    change_type(change) \o " of " \o
        (IF change.float THEN FloatRepr(Abs(change.hundredths)) ELSE "0") \o "%"

RichCell(s, fmt) == [kind |-> "rich", text |-> s, num |-> 0, den |-> 1, format |-> fmt]

insights_row_start(data) == Len(data) + 3

insights_col_start == Len(headers)

\* The text of the insight line of metric column i.
InsightText(data, i) ==
    "We observed a " \o
    percentage_text(percentage_change(CurrentRow(data)[i + 1], PreviousRow(data)[i + 1])) \o
    " in " \o headers[i + 1] \o " in " \o CurrentRow(data)[1] \o
    " compared to " \o PreviousRow(data)[1] \o "."

\* The "Highlights" header (i = 0) and the rich string of metric column i.
InsightCell(data, i) ==
    IF i = 0
    THEN TextCell("Highlights - " \o CurrentRow(data)[1] \o " vs " \o
                  PreviousRow(data)[1], "header_format")
    ELSE RichCell(InsightText(data, i),
            IF change_type(percentage_change(CurrentRow(data)[i + 1],
                                             PreviousRow(data)[i + 1])) = "improvement"
            THEN "improvement_format" ELSE "drop_format")

\* The positions written on the "GA4 Data" sheet: headers, data rows, and with
\* two or more data rows the "% Difference" row and the insights.
MonthlyPositions(data) ==
    {<<r, c>> : r \in 0..Len(data), c \in 0..Len(request_metrics)}
    \cup (IF HasDelta(data)
          THEN {<<Len(data) + 1, c>> : c \in 0..Len(request_metrics)}
               \cup {<<insights_row_start(data) - 1 + i, insights_col_start>> :
                        i \in 0..Len(request_metrics)}
          ELSE {})

\* data_range of the colour scale of column col_num
ConditionalRange(col_num, n) ==
    Chr65(col_num) \o "2:" \o Chr65(col_num) \o ToString(n + 1)

\* chart.add_series of metric number metric_index (0-based)
ChartSeries(metric_index, n) ==
    [name       |-> selected_metrics[metric_index + 1] \o " vs. Month",
     categories |-> "='GA4 Data'!A2:A" \o ToString(n + 1),
     values     |-> "='GA4 Data'!" \o Chr65(metric_index + 1) \o "2:" \o
                    Chr65(metric_index + 1) \o ToString(n + 1)]

\* The "GA4 Data" sheet after all writes (no two writes share a position).
MonthlyWorksheet(data) ==
    [p \in MonthlyPositions(data) |->
        IF p[2] = insights_col_start
        THEN InsightCell(data, p[1] - (insights_row_start(data) - 1))
        ELSE IF p[1] = 0 THEN HeaderCell(p[2])
        ELSE IF p[1] <= Len(data) THEN DataCell(data, p[1], p[2])
        ELSE DiffCell(data, p[2])]

\* Generate Excel report ... workbook.close(); st.success; st.download_button
M_Render ==
    /\ flow = "monthly" /\ pc = "fetch" /\ fetch_index = Len(months)
    /\ worksheet' = MonthlyWorksheet(all_data)
    /\ cond_formats' = [c \in 1..(Len(headers) - 1) |-> ConditionalRange(c, Len(all_data))]
    /\ charts' = [m \in 1..Len(selected_metrics) |-> ChartSeries(m - 1, Len(all_data))]
    /\ messages' = Append(messages,
          Msg("success", "Data and graphs successfully written to GA4_Report_Insights.xlsx."))
    /\ download' = TRUE
    /\ pc' = "done"
    /\ UNCHANGED <<flow, client, start_date, end_date, property_id, uploaded_file,
                   selected_metrics, run_report, months, request, all_data,
                   fetch_index, weekInputs, weeks, selected_channels, weekly_data,
                   queries, outcomes>>

-----------------------------------------------------------------------------
(* app_weekly_v1.py *)

WeekBase == Date(2024, 2, 28)

WeekDates == {AddDays(WeekBase, i) : i \in 0..WeekMaxDay}

\* The multiselect: its default, or one channel only.
ChannelSelections == {<<"Organic Search", "Paid Search">>, <<"Paid Search">>}

\* One response row of the weekly query: channel, then sessions, totalUsers,
\* engagedSessions as numeric strings.
WeeklyRows ==
    {[channel |-> "Paid Search",    metric_values |-> <<"200", "150", "90">>],
     [channel |-> "Paid Search",    metric_values |-> <<"150", "150", "0">>],
     [channel |-> "Organic Search", metric_values |-> <<"100", "120", "90">>],
     [channel |-> "Direct",         metric_values |-> <<"33", "32", "0">>]}

WeeklyResponses == SeqsUpTo(WeeklyRows, MaxRows)

InSeq(x, q) == \E i \in 1..Len(q) : q[i] = x

\* if st.sidebar.button(...): if not key_file or not property_id: st.error(...)
W_Gate ==
    /\ flow = "weekly" /\ pc = "button"
    /\ IF ~run_report
       THEN pc' = "idle" /\ UNCHANGED messages
       ELSE IF ~uploaded_file \/ property_id = ""
       THEN Stop("error", "Please upload a key file and enter the Property ID.")
       ELSE pc' = "client" /\ UNCHANGED messages
    /\ UNCHANGED <<flow, client, start_date, end_date, property_id, uploaded_file,
                   selected_metrics, run_report, months, request, all_data,
                   fetch_index, weekInputs, weeks, selected_channels, weekly_data,
                   worksheet, cond_formats, charts, queries, outcomes, download>>

\* weeks = [...]
WeeksList ==
    <<[name |-> "This Week", start_date |-> this_week_start, end_date |-> this_week_end],
      [name |-> "Prev Week", start_date |-> prev_week_start, end_date |-> prev_week_end]>>

\* json.loads / from_service_account_info / BetaAnalyticsDataClient; on an
\* exception the outer handler reports it and the run ends.
W_InitClient ==
    /\ flow = "weekly" /\ pc = "client"
    /\ \/ /\ weeks' = WeeksList
          /\ weekly_data' = <<>>
          /\ pc' = "fetch"
          /\ client' = "ready"
          /\ UNCHANGED messages
       \/ /\ \E e \in Errors : Stop("error", "Invalid key file or Property ID: " \o e)
          /\ client' = "failed"
          /\ UNCHANGED <<weeks, weekly_data>>
    /\ UNCHANGED <<flow, start_date, end_date, property_id, uploaded_file,
                   selected_metrics, run_report, months, request, all_data,
                   fetch_index, weekInputs, selected_channels,
                   worksheet, cond_formats, charts, queries, outcomes, download>>

\* The request dict built afresh in each iteration.
WeekRequest(week) ==
    [property    |-> "properties/" \o property_id,
     metrics     |-> <<"sessions", "totalUsers", "engagedSessions">>,
     date_ranges |-> <<DateRange(Iso(week.start_date), Iso(week.end_date))>>]

\* week_data[channel] = {...} for one row
RowEntry(row) ==
    [sessions         |-> ParseNumber(row.metric_values[1]),
     users            |-> ParseNumber(row.metric_values[2]),
     engaged_sessions |-> ParseNumber(row.metric_values[3])]

\* for row in response.rows: ... ; a later row of a channel replaces an earlier one
RECURSIVE WeekData(_, _)
WeekData(rows, acc) ==
    IF rows = <<>> THEN acc
    ELSE LET row == Head(rows)
         IN  WeekData(Tail(rows),
                IF InSeq(row.channel, selected_channels)
                THEN [c \in (DOMAIN acc) \cup {row.channel} |->
                        IF c = row.channel THEN RowEntry(row) ELSE acc[c]]
                ELSE acc)

\* weekly_data[name] = week_data
PutWeek(data, name, week_data) ==
    [n \in (DOMAIN data) \cup {name} |-> IF n = name THEN week_data ELSE data[n]]

\* One iteration of "for week in weeks".
W_Fetch ==
    /\ flow = "weekly" /\ pc = "fetch" /\ fetch_index < Len(weeks)
    /\ LET week == weeks[fetch_index + 1]
       IN  /\ queries' = Append(queries, WeekRequest(week))
           /\ \/ \E rows \in WeeklyResponses :
                   /\ weekly_data' = PutWeek(weekly_data, week.name, WeekData(rows, <<>>))
                   /\ outcomes' = Append(outcomes, TRUE)
                   /\ UNCHANGED messages
              \/ \E e \in Errors :
                   /\ outcomes' = Append(outcomes, FALSE)
                   /\ messages' = Append(messages,
                         Msg("error", "Error fetching data for " \o week.name \o ": " \o e))
                   /\ UNCHANGED weekly_data
    /\ fetch_index' = fetch_index + 1
    /\ UNCHANGED <<flow, client, pc, start_date, end_date, property_id, uploaded_file,
                   selected_metrics, run_report, months, request, all_data,
                   weekInputs, weeks, selected_channels, worksheet,
                   cond_formats, charts, download>>

ZeroEntry == [sessions |-> 0, users |-> 0, engaged_sessions |-> 0]

\* A variant of the lookup that falls back to the other week's figures.
ChannelDataOrOther(data, name, channel) ==
    IF name \in DOMAIN data /\ channel \in DOMAIN data[name]
    THEN data[name][channel]
    ELSE IF \E n \in DOMAIN data : channel \in DOMAIN data[n]
    THEN data[CHOOSE n \in DOMAIN data : channel \in DOMAIN data[n]][channel]
    ELSE ZeroEntry

\* weekly_data.get(name, {}).get(channel, {"sessions": 0, "users": 0, "engaged_sessions": 0})
ChannelData(data, name, channel) ==
    IF name \in DOMAIN data /\ channel \in DOMAIN data[name]
    THEN data[name][channel]
    ELSE ZeroEntry

\* A variant that reports a rise from zero as 100 %.
ChangeFromZeroIsFull(this, prev) ==
    IF prev # 0 THEN [num |-> (this - prev) * 100, den |-> prev]
    ELSE IF this > 0 THEN [num |-> 100, den |-> 1]
    ELSE [num |-> 0, den |-> 1]

\* (this - prev) / prev * 100 if prev else 0, as the fraction num/den
Change(this, prev) ==
    IF prev # 0 THEN [num |-> (this - prev) * 100, den |-> prev]
    ELSE [num |-> 0, den |-> 1]

change_data(this_week_data, prev_week_data) ==
    [sessions         |-> Change(this_week_data.sessions, prev_week_data.sessions),
     users            |-> Change(this_week_data.users, prev_week_data.users),
     engaged_sessions |-> Change(this_week_data.engaged_sessions,
                                 prev_week_data.engaged_sessions)]

WeeklyHeaders == <<"Date", "Users", "Sessions", "Engaged Sessions">>

WeeklyHeaderCells ==
    [p \in {<<0, c>> : c \in 0..Len(WeeklyHeaders)} |->
        IF p[2] = 0 THEN TextCell("", "header_format")
        ELSE TextCell(WeeklyHeaders[p[2]], "header_format")]

\* The row of a week's figures: label, users, sessions, engaged sessions.
FigureCell(label, entry, col) ==
    IF col = 1 THEN TextCell(label, "number_format")
    ELSE IF col = 2 THEN NumCell(entry.users, 1, "number_format")
    ELSE IF col = 3 THEN NumCell(entry.sessions, 1, "number_format")
    ELSE NumCell(entry.engaged_sessions, 1, "number_format")

\* The "% Change" row.
ChangeCell(change, col) ==
    IF col = 1 THEN TextCell("% Change", "number_format")
    ELSE IF col = 2 THEN TextCell(Format2f(change.users) \o "%", "number_format")
    ELSE IF col = 3 THEN TextCell(Format2f(change.sessions) \o "%", "number_format")
    ELSE TextCell(Format2f(change.engaged_sessions) \o "%", "number_format")

\* The three rows of the k-th selected channel (k from 1), starting at row 3k - 2.
ChannelCells(data, k) ==
    LET channel == selected_channels[k]
        row     == 3 * k - 2
        this_week_data == ChannelData(data, "This Week", channel)
        prev_week_data == ChannelData(data, "Prev Week", channel)
    IN  [p \in {<<r, c>> : r \in row..(row + 2), c \in 0..4} |->
            IF p[2] = 0
            THEN (IF p[1] = row THEN [kind |-> "merged", text |-> channel, num |-> 0,
                                      den |-> 1, format |-> "header_format"]
                  ELSE [kind |-> "blank", text |-> "", num |-> 0, den |-> 1,
                        format |-> "header_format"])
            ELSE IF p[1] = row THEN FigureCell("This Week", this_week_data, p[2])
            ELSE IF p[1] = row + 1 THEN FigureCell("Prev Week", prev_week_data, p[2])
            ELSE ChangeCell(change_data(this_week_data, prev_week_data), p[2])]

RECURSIVE PopulateWorksheet(_, _, _)
PopulateWorksheet(ws, data, k) ==
    IF k > Len(selected_channels) THEN ws
    ELSE PopulateWorksheet(WriteAll(ws, ChannelCells(data, k)), data, k + 1)

\* Create Excel file in memory ... st.download_button
W_Render ==
    /\ flow = "weekly" /\ pc = "fetch" /\ fetch_index = Len(weeks)
    /\ worksheet' = PopulateWorksheet(WriteAll(NoCells, WeeklyHeaderCells), weekly_data, 1)
    /\ download' = TRUE
    /\ pc' = "done"
    /\ UNCHANGED <<flow, client, start_date, end_date, property_id, uploaded_file,
                   selected_metrics, run_report, months, request, all_data,
                   fetch_index, weekInputs, weeks, selected_channels, weekly_data,
                   cond_formats, charts, messages, queries, outcomes>>

-----------------------------------------------------------------------------
(* generate_months on its own *)

GenBase == Date(2023, 10, 30)

GenDates == {AddDays(GenBase, i) : i \in 0..GenMaxDay}

G_Generate ==
    /\ flow = "generator" /\ pc = "generate"
    /\ months' = generate_months(start_date, end_date)
    /\ pc' = "done"
    /\ UNCHANGED <<flow, client, start_date, end_date, property_id, uploaded_file,
                   selected_metrics, run_report, request, all_data,
                   fetch_index, weekInputs, weeks, selected_channels, weekly_data,
                   worksheet, cond_formats, charts, messages, queries, outcomes,
                   download>>

-----------------------------------------------------------------------------
(* Specifications *)

NoRequest == [property |-> "", metrics |-> <<>>, dimension_filter |-> "", date_ranges |-> <<>>]

\* What every run starts with, whatever the script.
InitCommon ==
    /\ months = <<>> /\ request = NoRequest /\ all_data = <<>>
    /\ fetch_index = 0 /\ weeks = <<>> /\ weekly_data = <<>>
    /\ worksheet = NoCells /\ cond_formats = <<>> /\ charts = <<>>
    /\ messages = <<>> /\ queries = <<>> /\ outcomes = <<>>
    /\ download = FALSE
    /\ client = "none"

InitMonthly ==
    /\ flow = "monthly" /\ pc = "validate"
    /\ start_date \in FlowDates /\ end_date \in FlowDates
    /\ property_id \in PropertyIds /\ uploaded_file \in BOOLEAN
    /\ selected_metrics \in MetricSelections
    /\ run_report \in BOOLEAN
    /\ this_week_start = WeekBase /\ this_week_end = WeekBase
    /\ prev_week_start = WeekBase /\ prev_week_end = WeekBase
    /\ selected_channels = <<>>

InitWeekly ==
    /\ flow = "weekly" /\ pc = "button"
    /\ this_week_start \in WeekDates /\ this_week_end \in WeekDates
    /\ prev_week_start \in WeekDates /\ prev_week_end \in WeekDates
    /\ property_id \in PropertyIds /\ uploaded_file \in BOOLEAN
    /\ selected_channels \in ChannelSelections
    /\ run_report \in BOOLEAN
    /\ start_date = FlowBase /\ end_date = FlowBase
    /\ selected_metrics = <<>>

Init == InitCommon /\ (InitMonthly \/ InitWeekly)

Next ==
    \/ M_ValidateRange
    \/ M_CheckMetrics
    \/ M_RunGate
    \/ M_InitClient
    \/ M_Prepare
    \/ M_Fetch
    \/ M_Render
    \/ W_Gate
    \/ W_InitClient
    \/ W_Fetch
    \/ W_Render

Spec == Init /\ [][Next]_vars

InitGen ==
    /\ InitCommon
    /\ flow = "generator" /\ pc = "generate"
    /\ start_date \in GenDates /\ end_date \in GenDates
    /\ property_id = "" /\ uploaded_file = FALSE
    /\ selected_metrics = <<>> /\ run_report = FALSE
    /\ this_week_start = WeekBase /\ this_week_end = WeekBase
    /\ prev_week_start = WeekBase /\ prev_week_end = WeekBase
    /\ selected_channels = <<>>

NextGen == G_Generate

SpecGen == InitGen /\ [][NextGen]_vars

-----------------------------------------------------------------------------
(* Reading the periods back *)

AllDates ==
    {dd \in {Date(y, m, d) : y \in 2023..2025, m \in 1..12, d \in 1..31} :
        dd.day <= DaysInMonth(dd.year, dd.month)}

IsoOf == [d \in AllDates |-> Iso(d)]

\* The date an ISO string denotes.
ParseIso(s) == CHOOSE d \in AllDates : IsoOf[d] = s

\* Months are counted from year 0: two dates lie in the same calendar month
\* exactly when their month numbers agree.
MonthNumber(d) == d.year * 12 + d.month

\* First day of calendar month number n.
FirstOfMonthNumber(n) == Date((n - 1) \div 12, ((n - 1) % 12) + 1, 1)

\* Last day of calendar month number n.
LastOfMonthNumber(n) ==
    Date((n - 1) \div 12, ((n - 1) % 12) + 1,
         DaysInMonth((n - 1) \div 12, ((n - 1) % 12) + 1))

PeriodStart(k) == ParseIso(months[k].start_date)

PeriodEnd(k) == ParseIso(months[k].end_date)

GeneratedFromValidSpan ==
    flow = "generator" /\ pc = "done" /\ DateLE(start_date, end_date)

-----------------------------------------------------------------------------
(* Claims *)

\* C1: for start <= end touching N calendar months, generate_months returns
\* exactly N periods in chronological order, each period starts on the day
\* after the previous one ends, and the last period ends on end.
C1_MonthsCountContiguousClipped ==
    GeneratedFromValidSpan =>
        /\ Len(months) = MonthNumber(end_date) - MonthNumber(start_date) + 1
        /\ \A k \in 1..(Len(months) - 1) :
              /\ DateLT(PeriodStart(k), PeriodStart(k + 1))
              /\ PeriodStart(k + 1) = AddDays(PeriodEnd(k), 1)
        /\ months[Len(months)].end_date = Iso(end_date)

\* A span over four calendar months and a year boundary whose end falls
\* inside its month.
C1_Witness ==
    /\ GeneratedFromValidSpan
    /\ Len(months) = 4
    /\ start_date.year < end_date.year
    /\ end_date.day = 15
    /\ months[4].end_date = "2024-02-15"

\* C9: the generated periods partition the span: each has start <= end, no
\* two overlap, and each lies inside [start, end] (the first period does not
\* begin before start).
C9_PeriodsPartitionSpan ==
    GeneratedFromValidSpan =>
        /\ \A k \in 1..Len(months) :
              /\ DateLE(PeriodStart(k), PeriodEnd(k))
              /\ DateLE(start_date, PeriodStart(k))
              /\ DateLE(PeriodEnd(k), end_date)
        /\ \A k \in 1..(Len(months) - 1) : DateLT(PeriodEnd(k), PeriodStart(k + 1))

\* C2: a window with start > end never leads to a query or a report: the
\* monthly span, and each of the two weekly windows on its own.
C2_InvalidRangeIssuesNoQuery ==
    LET invalid ==
            \/ flow = "monthly" /\ DateLT(end_date, start_date)
            \/ flow = "weekly" /\ DateLT(this_week_end, this_week_start)
            \/ flow = "weekly" /\ DateLT(prev_week_end, prev_week_start)
    IN  invalid => (queries = <<>> /\ ~download /\ worksheet = NoCells)

\* The gate has been evaluated with an input missing, or building the client
\* raised.
FatalError ==
    \/ client = "failed"
    \/ /\ pc \notin {"validate", "metrics", "button"}
       /\ run_report
       /\ (~uploaded_file \/ property_id = "")

\* C3: after a missing input or a failed client initialisation the run has
\* ended with a message, no query and no spreadsheet; a query, a sheet or a
\* download exists only when both inputs were given and the client was built.
C3_FatalGate ==
    /\ FatalError =>
          /\ pc = "stopped"
          /\ messages # <<>>
          /\ messages[Len(messages)].level \in {"error", "warning"}
          /\ queries = <<>> /\ worksheet = NoCells /\ ~download
    /\ (queries # <<>> \/ worksheet # NoCells \/ download) =>
          (uploaded_file /\ property_id # "" /\ client = "ready")

\* Both inputs given, the client could not be built: the run has stopped.
C3_Witness ==
    /\ flow = "monthly" /\ pc = "stopped" /\ client = "failed"
    /\ uploaded_file /\ property_id # ""
    /\ messages = <<Msg("error", "Error initializing GA4 client: 503 unavailable")>>

\* The labels of the periods whose query succeeded, in period order.
RECURSIVE SuccessLabels(_, _)
SuccessLabels(periods, outs) ==
    IF outs = <<>> THEN <<>>
    ELSE (IF Head(outs) THEN <<Head(periods).month>> ELSE <<>>) \o
         SuccessLabels(Tail(periods), Tail(outs))

\* C4: whatever queries fail, the monthly loop goes on to the remaining
\* periods, all_data holds one row per successful period and none for a
\* failed one, in period order, and the run renders and offers the report.
C4_MonthlyToleratesFailures ==
    (flow = "monthly" /\ pc \in {"fetch", "done"}) =>
        /\ Len(outcomes) = fetch_index
        /\ fetch_index <= Len(months)
        /\ [k \in 1..Len(all_data) |-> all_data[k][1]] = SuccessLabels(months, outcomes)
        /\ \A k \in 1..Len(all_data) : Len(all_data[k]) = 1 + Len(selected_metrics)
        /\ pc = "fetch" => ((ENABLED M_Fetch) \/ (ENABLED M_Render))
        /\ pc = "done" =>
              /\ fetch_index = Len(months)
              /\ download
              /\ \A c \in 0..Len(selected_metrics) : <<0, c>> \in DOMAIN worksheet
              /\ \A k \in 1..Len(all_data) :
                    /\ <<k, 0>> \in DOMAIN worksheet
                    /\ worksheet[<<k, 0>>].text = all_data[k][1]

\* Three periods, the middle one failed, the report offered.
C4_Witness ==
    /\ flow = "monthly" /\ pc = "done" /\ download
    /\ outcomes = <<TRUE, FALSE, TRUE>>
    /\ Len(all_data) = 2
    /\ all_data[1][1] = "Jan" /\ all_data[2][1] = "Mar"

\* The date range the k-th query of the run has to carry.
OwnRange(k) ==
    IF flow = "monthly"
    THEN LET n == MonthNumber(start_date) + k - 1
         IN  DateRange(Iso(FirstOfMonthNumber(n)),
                       Iso(DateMin(LastOfMonthNumber(n), end_date)))
    ELSE IF k = 1 THEN DateRange(Iso(this_week_start), Iso(this_week_end))
    ELSE DateRange(Iso(prev_week_start), Iso(prev_week_end))

NumPeriods ==
    IF flow = "monthly" THEN MonthNumber(end_date) - MonthNumber(start_date) + 1 ELSE 2

\* C10: periods are queried one at a time in sequence order, one query per
\* period, a query is issued only when the one before has returned or
\* failed, and each query carries the date range of its own period.
C10_QueriesSequentialOwnRange ==
    /\ Len(queries) = Len(outcomes)
    /\ Len(queries) = fetch_index
    /\ queries # <<>> => Len(queries) <= NumPeriods
    /\ \A k \in 1..Len(queries) : queries[k].date_ranges = <<OwnRange(k)>>
    /\ pc = "done" => Len(queries) = NumPeriods

\* A monthly run over three periods whose first query failed.
C10_Witness ==
    /\ flow = "monthly" /\ pc = "done"
    /\ outcomes = <<FALSE, TRUE, TRUE>>
    /\ queries[2].date_ranges = <<DateRange("2024-02-01", "2024-02-29")>>
    /\ queries[3].date_ranges = <<DateRange("2024-03-01", "2024-03-02")>>

\* Position of a channel in the selection (0 when it is not selected).
ChannelIndex(channel) ==
    IF InSeq(channel, selected_channels)
    THEN CHOOSE k \in 1..Len(selected_channels) : selected_channels[k] = channel
    ELSE 0

\* The three figure cells of worksheet row r are the number 0.
RowAllZero(r) ==
    \A c \in 2..4 :
        /\ <<r, c>> \in DOMAIN worksheet
        /\ worksheet[<<r, c>>].kind = "number"
        /\ worksheet[<<r, c>>].num = 0

WeekNames == <<"This Week", "Prev Week">>

\* C5: when the query of one week fails, the other week is still queried,
\* the failed week is reported by name, every selected channel shows zeros
\* for the failed week, and the sheet has three rows per selected channel.
C5_WeeklyZeroFill ==
    (flow = "weekly" /\ pc = "done") =>
        \A w \in 1..2 :
            ~outcomes[w] =>
                /\ Len(queries) = 2
                /\ \E i \in 1..Len(messages) : \E e \in Errors :
                      messages[i] = Msg("error",
                          "Error fetching data for " \o WeekNames[w] \o ": " \o e)
                /\ \A k \in 1..Len(selected_channels) : RowAllZero(3 * k - 3 + w)
                /\ {p[1] : p \in DOMAIN worksheet} = 0..(3 * Len(selected_channels))
                /\ \A k \in 1..Len(selected_channels) :
                      /\ worksheet[<<3 * k - 2, 1>>].text = "This Week"
                      /\ worksheet[<<3 * k - 1, 1>>].text = "Prev Week"
                      /\ worksheet[<<3 * k, 1>>].text = "% Change"
                      /\ worksheet[<<3 * k - 2, 0>>].text = selected_channels[k]
                /\ download

\* This Week returned figures for Paid Search, the Prev Week query failed.
C5_Witness ==
    /\ flow = "weekly" /\ pc = "done" /\ download
    /\ outcomes = <<TRUE, FALSE>>
    /\ selected_channels = <<"Organic Search", "Paid Search">>
    /\ worksheet[<<4, 3>>].num = 200
    /\ worksheet[<<5, 3>>].num = 0

\* h is round(|current - previous| / previous * 100, 2) in hundredths:
\* nearest to the exact quotient, the even neighbour on a tie.
IsRoundedMagnitude(h, current, previous) ==
    LET exact == Abs(current - previous) * 10000
    IN  /\ 2 * Abs(h * previous - exact) <= previous
        /\ (2 * Abs(h * previous - exact) = previous) => h % 2 = 0

MonthlyRendered == flow = "monthly" /\ pc = "done"

\* The worksheet cell holding the insight of metric column i.
InsightAt(i) == worksheet[<<Len(all_data) + 2 + i, Len(headers)>>]

InsightSuffix(i) ==
    "% in " \o headers[i + 1] \o " in " \o all_data[Len(all_data)][1] \o
    " compared to " \o all_data[Len(all_data) - 1][1] \o "."

\* C6: per metric the insight shows abs(percent_change), where percent_change
\* is the change from previous to current in percent rounded to two decimals
\* when previous # 0 and exactly 0 when previous = 0; it is an "improvement"
\* exactly when percent_change > 0 and a "drop" otherwise; 100 -> 150 is an
\* improvement of 50.0.
C6_DeltaFormulaAndClassification ==
    (MonthlyRendered /\ Len(all_data) >= 2) =>
        \A i \in 1..Len(selected_metrics) :
            LET current  == all_data[Len(all_data)][i + 1]
                previous == all_data[Len(all_data) - 1][i + 1]
                rises    == previous # 0 /\ 20000 * (current - previous) > previous
                word     == IF rises THEN "improvement" ELSE "drop"
                floor    == IF previous = 0 THEN 0
                            ELSE (Abs(current - previous) * 10000) \div previous
            IN  /\ InsightAt(i).format =
                      (IF rises THEN "improvement_format" ELSE "drop_format")
                /\ previous = 0 =>
                      InsightAt(i).text = "We observed a drop of 0" \o InsightSuffix(i)
                /\ previous # 0 =>
                      \E h \in {floor, floor + 1} :
                          /\ IsRoundedMagnitude(h, current, previous)
                          /\ InsightAt(i).text =
                                "We observed a " \o word \o " of " \o FloatRepr(h) \o
                                InsightSuffix(i)
                /\ (previous = 100 /\ current = 150) =>
                      InsightAt(i).text =
                          "We observed a improvement of 50.0" \o InsightSuffix(i)
                /\ (current = previous) =>
                      InsightAt(i).format = "drop_format"

\* Sessions 100 -> 150 and Users 0 -> 33 between Jan and Feb.
C6_Witness ==
    /\ MonthlyRendered
    /\ all_data = << <<"Jan", 100, 0>>, <<"Feb", 150, 33>> >>
    /\ InsightAt(1).text =
          "We observed a improvement of 50.0% in Sessions in Feb compared to Jan."
    /\ InsightAt(1).format = "improvement_format"
    /\ InsightAt(2).format = "drop_format"
    /\ InsightAt(2).text = "We observed a drop of 0% in Users in Feb compared to Jan."

\* Cells of the data table (left of the insights column) whose text is s.
TableCellsWithText(s) ==
    {p \in DOMAIN worksheet : p[2] < Len(headers) /\ worksheet[p].text = s}

\* C7: with fewer than two data rows there is no "% Difference" row and no
\* insight; with n >= 2 rows there is exactly one "% Difference" row, right
\* below the n data rows, and it and the insights compare row n with row n-1.
C7_DeltaRowSelection ==
    MonthlyRendered =>
        LET n == Len(all_data)
        IN  /\ n < 2 =>
                 /\ TableCellsWithText("% Difference") = {}
                 /\ \A p \in DOMAIN worksheet : p[2] < Len(headers) /\ p[1] <= n
            /\ n >= 2 =>
                 /\ TableCellsWithText("% Difference") = {<<n + 1, 0>>}
                 /\ {p[1] : p \in {q \in DOMAIN worksheet : q[2] < Len(headers)}} = 0..(n + 1)
                 /\ \A i \in 1..Len(selected_metrics) :
                       LET current  == all_data[n][i + 1]
                           previous == all_data[n - 1][i + 1]
                           cell     == worksheet[<<n + 1, i>>]
                       IN  /\ cell.kind = "number"
                           /\ previous = 0 => cell.num = 0
                           /\ previous # 0 =>
                                 /\ cell.den = 10000
                                 /\ (cell.num < 0) = (20000 * (previous - current) > previous)
                                 /\ IsRoundedMagnitude(Abs(cell.num), current, previous)
                 /\ worksheet[<<n + 2, Len(headers)>>].text =
                       "Highlights - " \o all_data[n][1] \o " vs " \o all_data[n - 1][1]
                 /\ \A i \in 1..Len(selected_metrics) :
                       InsightAt(i).format =
                          (IF all_data[n - 1][i + 1] # 0 /\
                              20000 * (all_data[n][i + 1] - all_data[n - 1][i + 1])
                                 > all_data[n - 1][i + 1]
                           THEN "improvement_format" ELSE "drop_format")

\* Jan, Feb, Mar with Sessions 100, 150, 120: the delta row compares Feb -> Mar.
C7_Witness ==
    /\ MonthlyRendered
    /\ Len(all_data) = 3
    /\ all_data[1][2] = 100 /\ all_data[2][2] = 150 /\ all_data[3][2] = 120
    /\ worksheet[<<4, 0>>].text = "% Difference"
    /\ worksheet[<<4, 1>>].num = -2000
    /\ worksheet[<<5, 3>>].text = "Highlights - Mar vs Feb"

\* A selected channel with figures 200 sessions, 150 users, 90 engaged
\* sessions in This Week and no row in Prev Week.
PaidSearchOnlyThisWeek ==
    /\ flow = "weekly" /\ pc = "done"
    /\ InSeq("Paid Search", selected_channels)
    /\ "This Week" \in DOMAIN weekly_data
    /\ "Paid Search" \in DOMAIN weekly_data["This Week"]
    /\ weekly_data["This Week"]["Paid Search"] =
          [sessions |-> 200, users |-> 150, engaged_sessions |-> 90]
    /\ "Prev Week" \in DOMAIN weekly_data
    /\ "Paid Search" \notin DOMAIN weekly_data["Prev Week"]

\* The Prev Week row of the channel is all zeros and its "% Change" row
\* shows the text shown for each of the three metrics.
PaidSearchChangeShows(shown) ==
    LET row == 3 * ChannelIndex("Paid Search") - 2
    IN  /\ RowAllZero(row + 1)
        /\ \A c \in 2..4 : worksheet[<<row + 2, c>>].text = shown

\* C8 as stated: the "% Change" row shows "100.00%" for each metric.
C8_AbsentPrevWeekShowsHundred ==
    PaidSearchOnlyThisWeek => PaidSearchChangeShows("100.00%")

\* C8 amended: the "% Change" row shows "0.00%" for each metric.
C8_AbsentPrevWeekShowsZero ==
    PaidSearchOnlyThisWeek => PaidSearchChangeShows("0.00%")

\* The scenario itself, rendered.
C8_Witness ==
    /\ PaidSearchOnlyThisWeek
    /\ outcomes = <<TRUE, TRUE>>
    /\ worksheet[<<3 * ChannelIndex("Paid Search") - 2, 3>>].num = 200
    /\ worksheet[<<3 * ChannelIndex("Paid Search"), 3>>].text = "0.00%"

====
